---- MODULE Spec2Model ----
(***************************************************************************)
(* The global fetch wrapper of static/js/app.js: token injection, 401      *)
(* detection, single-flight token refresh with a queue of waiting calls,   *)
(* retry with the renewed token, and logout.                               *)
(*                                                                         *)
(* Execution model: one JavaScript event loop.  A step of the model is one *)
(* run-to-completion piece of the wrapper: from a call or from the         *)
(* resumption after an await up to the next await or return.  Promise      *)
(* reactions of the queued waiters are microtasks: they run in FIFO order  *)
(* before any further network completion is handled.                       *)
(***************************************************************************)
EXTENDS Integers, Sequences, FiniteSets, TLC

\* Number of calls to window.fetch made by the page.
NumCalls == 3

\* Number of htmx:responseError events with status 401 the page handles.
MaxHtmxLogouts == 1

\* Ids of the items a page shows for selection, and the largest distance of
\* readCount from zero that is explored.
MaxItemId == 3
MaxReadCount == 2

\* Number of fetches a paginated list issues, and the largest page number a
\* caller asks changePage for.
MaxLoads == 3
MaxPageArg == 4

\* Number of calls of a debounced function, the time the clock runs to, and
\* how long after it is due a timer callback may run.
MaxDebounceCalls == 3
MaxTime == 6
MaxLate == 1

Calls == 1..NumCalls

\* localStorage.getItem of a missing key, and an absent header or cookie.
null == <<>>

\* Token values: <<"A", n>> is the n-th access token, <<"R", n>> the n-th
\* refresh token.  Number 0 is the pair issued by the login page.
AccessToken(n) == <<"A", n>>
RefreshToken(n) == <<"R", n>>

\* Request targets, as text cut into pieces so that String.includes can be
\* computed.
UrlComics == <<"/", "api", "/", "comics">>
UrlLogin == <<"/", "api", "/", "auth", "/", "token">>
UrlRefresh == <<"/", "api", "/", "auth", "/", "refresh">>
\* The targets the pages call window.fetch with: the API and the login form.
\* The refresh endpoint is called by the wrapper itself (app.js:79).
Urls == {UrlComics, UrlLogin}

\* Page paths, cut like the request targets.  The page changes its path
\* without reloading (history API), so each read of window.location.pathname
\* is an input of the step that reads it.
PathHome == <<"/">>
PathLogin == <<"/", "login">>
Paths == {PathHome, PathLogin}

\* HTTP statuses the server answers a request of the page with, and those the
\* refresh endpoint answers with.
Statuses == {200, 401}
RefreshStatuses == {200, 401, 500}

VARIABLES
    isRefreshing,   \* app.js:8
    failedQueue,    \* app.js:9, the calls whose {resolve, reject} is queued
    localStorage,   \* the keys 'token' and 'refresh_token'
    cookie,         \* document.cookie entry access_token: null or [value, maxAge]
    pathRead,       \* window.location.pathname of the page, null until a logout
    pc,             \* per call: where the async function is suspended
    url,            \* per call: the url argument
    authHeader,     \* per call: options.headers['Authorization']
    response,       \* per call: status of the response to the first dispatch
    result,         \* per call: what the returned promise settled with
    sent,           \* per call: url and Authorization of each network dispatch
    microtasks,     \* pending promise reactions of settled waiters
    issued,         \* server: number of token pairs issued by the refresh endpoint
    renewals,       \* history: one record per call of POST /api/auth/refresh
    settlements,    \* history: per call, the settlements of its queued promise
    enqueuedIn,     \* history: per call, the renewal in flight when it was queued
    navigations,    \* history: number of assignments to window.location.href
    branch,         \* history: per call, the branch its first response took
    observed        \* history: per call, the state in which its 401 was observed

\* The header container of one call to window.fetch, looked at on its own.
VARIABLES
    callerHeaders,  \* the headers member of the options argument, null if none
    options,        \* app.js:22-24: options.headers of the call, null before it
    dispatched      \* the headers handed to originalFetch, one entry per dispatch

\* The HTMX event handlers of the page.
VARIABLES
    htmxLogouts     \* history: number of times app.js:300-303 ran

\* Alpine.store('batch').
VARIABLES
    batchItems,     \* app.js:198 items: the set of keys selected
    readCount,      \* app.js:199
    readKeys        \* history: the keys last selected with isRead true

\* One component built on paginationMixin.
VARIABLES
    items,          \* part_003:394
    loading,        \* part_003:395
    page,           \* part_003:396
    total,          \* part_003:398
    inflight,       \* the fetches of loadItems not yet answered
    fetched,        \* history: number of fetches issued by loadItems
    answered,       \* history: the fetches answered, each with its outcome
    lastCall        \* history: the last method called, with its argument

\* One function returned by debounce(func, wait), and the timers of the page.
VARIABLES
    timeout,        \* app.js:360: id of the timer set last, 0 while undefined
    timers,         \* the timers set by setTimeout and not yet run or cleared
    clock,            \* the clock
    debounceCalls,  \* history: the calls of executedFunction, with their time
    runs,           \* history: the calls of func, with their time
    cleared         \* history: ids of the timers cleared before they ran

\* Every variable of the wrapper but localStorage.
callVars == <<isRefreshing, failedQueue, cookie, pathRead, pc, url,
              authHeader, response, result, sent, microtasks, issued, renewals,
              settlements, enqueuedIn, navigations, branch, observed>>

headerVars == <<callerHeaders, options, dispatched>>

\* The variables of the other components of the page, which the wrapper's
\* steps leave alone.
batchVars == <<batchItems, readCount, readKeys>>

paginationVars ==
    <<items, loading, page, total, inflight, fetched, answered, lastCall>>

debounceVars == <<timeout, timers, clock, debounceCalls, runs, cleared>>

componentVars ==
    <<headerVars, htmxLogouts, batchVars, paginationVars, debounceVars>>

\* What the steps of each component leave alone.
headerRest == <<htmxLogouts, batchVars, paginationVars, debounceVars>>
htmxRest == <<headerVars, batchVars, paginationVars, debounceVars>>
batchRest ==
    <<localStorage, callVars, headerVars, htmxLogouts, paginationVars,
      debounceVars>>
paginationRest ==
    <<localStorage, callVars, headerVars, htmxLogouts, batchVars, debounceVars>>
debounceRest ==
    <<localStorage, callVars, headerVars, htmxLogouts, batchVars,
      paginationVars>>

vars == <<localStorage, callVars, componentVars>>

----
\* String.prototype.includes on texts cut into pieces.
Includes(s, sub) ==
    \E i \in 0..(Len(s) - Len(sub)) : SubSeq(s, i + 1, i + Len(sub)) = sub

\* Response.ok
Ok(status) == status >= 200 /\ status <= 299

\* The string '', and the text that setItem and a template literal make of
\* a missing (undefined) member.
EmptyString == <<"">>
UndefinedText == <<"undefined">>

\* `if (token)` and `!refreshToken`: null and '' are falsy.
Truthy(v) == v \notin {null, EmptyString}

\* app.js:27-33
injectToken(token) == <<"Bearer", token>>

\* app.js:36-37: the Authorization header of the first dispatch.
InitialAuth(stored) == IF Truthy(stored) THEN injectToken(stored) ELSE null

\* Variant of AbortRefresh without the test of the refresh token.
AbortRefresh_noTokenCheck(refreshToken, u) ==
    Includes(u, <<"/", "token">>) \/ Includes(u, <<"/", "refresh">>)

\* Variant of AbortRefresh without the tests of the url.
AbortRefresh_noUrlCheck(refreshToken, u) ==
    ~Truthy(refreshToken)

\* app.js:61: the abort condition of the refresh logic.
AbortRefresh(refreshToken, u) ==
    \/ ~Truthy(refreshToken)
    \/ Includes(u, <<"/", "token">>)
    \/ Includes(u, <<"/", "refresh">>)

\* Variant of QueueThisRequest that never queues.
QueueThisRequest_never(refreshing) == FALSE

\* app.js:46: a 401 is queued when a refresh is running.
QueueThisRequest(refreshing) == refreshing

\* Variant of Inspected in which the initiator's retry goes through the
\* wrapper again.
Inspected_retryToo(p) == p \in {"first", "retry"}

\* app.js:40-43: only the response awaited at line 40 is inspected; the
\* promises of the retries (lines 51 and 102) are returned as they are.
Inspected(p) == p = "first"

\* Variant of Settle with the test of error inverted away: always resolve.
Settle_alwaysResolve(c, error, token) ==
    [call |-> c, how |-> "resolve", token |-> token]

\* app.js:13-17: the reaction scheduled by prom.reject or prom.resolve.
Settle(c, error, token) ==
    [call |-> c,
     how |-> IF error THEN "reject" ELSE "resolve",
     token |-> IF error THEN null ELSE token]

\* Variant of processQueue that walks the queue from its end.
processQueue_reversed(queue, error, token) ==
    [i \in 1..Len(queue) |-> Settle(queue[Len(queue) + 1 - i], error, token)]

\* Variant of processQueue called without the token.
processQueue_noToken(queue, error, token) ==
    [i \in 1..Len(queue) |-> Settle(queue[i], error, null)]

\* Variant of processQueue that settles the head of the queue only.
processQueue_firstOnly(queue, error, token) ==
    [i \in 1..(IF Len(queue) > 0 THEN 1 ELSE 0) |-> Settle(queue[i], error, token)]

\* app.js:11-18
processQueue(queue, error, token) ==
    [i \in 1..Len(queue) |-> Settle(queue[i], error, token)]

\* Variant of QueueAfterProcess that leaves the queue as it is.
QueueAfterProcess_kept(queue) == queue

\* app.js:19
QueueAfterProcess(queue) == <<>>

\* Variant of SaveTokens that keeps the old refresh token.
SaveTokens_noRotate(store, data) ==
    [store EXCEPT !.token = data.access_token]

\* app.js:90-91
SaveTokens(store, data) ==
    [store EXCEPT !.token = data.access_token,
                  !.refresh_token = data.refresh_token]

\* Variant of RemoveTokens that removes the access token only.
RemoveTokens_tokenOnly(store) ==
    [store EXCEPT !.token = null]

\* app.js:65-66 and 110-111
RemoveTokens(store) ==
    [store EXCEPT !.token = null, !.refresh_token = null]

\* Variant of Navigate: the assignment to location.href is missing.
Navigate_none(n) == n

\* app.js:70, 112: window.location.href = '/login' starts a navigation; the
\* document and its scripts stay until the navigation replaces the page.
Navigate(n) == n + 1

\* Variant of CookieFor: max-age written as one day, whatever the body says.
CookieFor_fixedMaxAge(data) ==
    [name |-> "access_token", value |-> data.access_token, path |-> "/",
     maxAge |-> 86400, sameSite |-> "Lax"]

\* app.js:95: the cookie that the assignment to document.cookie sets.
CookieFor(data) ==
    [name |-> "access_token", value |-> data.access_token, path |-> "/",
     maxAge |-> data.lifetime_in_seconds, sameSite |-> "Lax"]

\* Variant of StartIsRefreshing: the flag is not raised.
StartIsRefreshing_notSet == FALSE

\* app.js:75
StartIsRefreshing == TRUE

\* Variant of FinallyIsRefreshing: the flag is not lowered.
FinallyIsRefreshing_stuck == TRUE

\* app.js:116
FinallyIsRefreshing == FALSE

\* The body of a successful refresh response: the server rotates both tokens.
Lifetimes == {3600}

RefreshData(n) ==
    { [access_token |-> AccessToken(n), refresh_token |-> RefreshToken(n),
       lifetime_in_seconds |-> l] : l \in Lifetimes }

----
\* app.js:7-9: the wrapper as installed, with no call made yet.
Constructed ==
    /\ isRefreshing = FALSE
    /\ failedQueue = <<>>
    /\ cookie = null
    /\ pathRead = null
    /\ pc = [c \in Calls |-> "idle"]
    /\ url = [c \in Calls |-> <<>>]
    /\ authHeader = [c \in Calls |-> null]
    /\ response = [c \in Calls |-> 0]
    /\ result = [c \in Calls |-> <<>>]
    /\ sent = [c \in Calls |-> <<>>]
    /\ microtasks = <<>>
    /\ issued = 0
    /\ renewals = <<>>
    /\ settlements = [c \in Calls |-> <<>>]
    /\ enqueuedIn = [c \in Calls |-> 0]
    /\ navigations = 0
    /\ branch = [c \in Calls |-> "none"]
    /\ observed = [c \in Calls |-> null]

\* No call is in hand in the header component.
HeaderIdle ==
    /\ callerHeaders = null
    /\ options = null
    /\ dispatched = <<>>

\* app.js:198-199: the store as registered, with nothing selected.
BatchEmpty ==
    /\ batchItems = {}
    /\ readCount = 0
    /\ readKeys = {}

\* part_003:392-399: the state a component starts with.
PaginationCreated ==
    /\ items = <<>>
    /\ loading = TRUE
    /\ page = 1
    /\ total = 0
    /\ inflight = {}
    /\ fetched = 0
    /\ answered = {}
    /\ lastCall = [op |-> "none", arg |-> 0]

\* app.js:359-360: the state debounce(func, wait) returns its function with.
Debounced ==
    /\ timeout = 0
    /\ timers = {}
    /\ clock = 0
    /\ debounceCalls = <<>>
    /\ runs = <<>>
    /\ cleared = {}

ComponentsIdle ==
    /\ HeaderIdle
    /\ htmxLogouts = 0
    /\ BatchEmpty
    /\ PaginationCreated
    /\ Debounced

\* The page is loaded logged in, with or without a refresh token, or logged
\* out.
Init ==
    /\ localStorage \in
           [token : {AccessToken(0)}, refresh_token : {null, RefreshToken(0)}]
               \cup {[token |-> null, refresh_token |-> null]}
    /\ Constructed
    /\ ComponentsIdle

\* A network dispatch of the call's own request: originalFetch(url, options).
Dispatch(u, auth) == [url |-> u, auth |-> auth]

\* app.js:22-40: window.fetch(url, options) up to the first await.  Calls are
\* numbered in the order in which they are made.
Fetch(c, u) ==
    /\ pc[c] = "idle"
    /\ \A d \in Calls : d < c => pc[d] /= "idle"
    /\ url' = [url EXCEPT ![c] = u]
    /\ authHeader' = [authHeader EXCEPT ![c] = InitialAuth(localStorage.token)]
    /\ sent' = [sent EXCEPT
                   ![c] = Append(@, Dispatch(u, InitialAuth(localStorage.token)))]
    /\ pc' = [pc EXCEPT ![c] = "first"]
    /\ UNCHANGED <<isRefreshing, failedQueue, localStorage, cookie, pathRead,
                   response, result, microtasks, issued, renewals,
                   settlements, enqueuedIn, navigations, branch, observed>>
    /\ UNCHANGED componentVars

\* The async function returns r: its promise is fulfilled with a response.
Return(c, r) ==
    /\ pc' = [pc EXCEPT ![c] = "done"]
    /\ result' = [result EXCEPT ![c] = r]

\* A response object: the dispatch that produced it and its status.
Resp(n, status) == <<"response", n, status>>

\* A rejected fetch: the dispatch that failed.
Err(n) == <<"error", n>>

\* The refresh calls that have finished.
Completed == {k \in 1..Len(renewals) : renewals[k].outcome \in {"ok", "failed"}}

\* app.js:46-55: the call queues {resolve, reject} and waits.
Enqueue(c) ==
    /\ failedQueue' = Append(failedQueue, c)
    /\ enqueuedIn' = [enqueuedIn EXCEPT ![c] = Len(renewals)]
    /\ pc' = [pc EXCEPT ![c] = "queued"]
    /\ branch' = [branch EXCEPT ![c] = "queued"]
    /\ UNCHANGED <<isRefreshing, localStorage, cookie, pathRead, result,
                   renewals, navigations>>

\* app.js:61-73: logout without a refresh call. The page keeps one pathname
\* for its whole life (nothing in app.js changes the history).
Logout(c, r, pathname) ==
    /\ pathRead \in {null, pathname}
    /\ localStorage' = RemoveTokens(localStorage)
    /\ pathRead' = pathname
    /\ navigations' = IF ~Includes(pathname, PathLogin)
                      THEN Navigate(navigations)
                      ELSE navigations
    /\ Return(c, r)
    /\ branch' = [branch EXCEPT ![c] = "logout"]
    /\ UNCHANGED <<isRefreshing, failedQueue, cookie, renewals, enqueuedIn>>

\* app.js:75-83: the call starts the refresh and awaits its response.
StartRefresh(c, refreshToken) ==
    /\ isRefreshing' = StartIsRefreshing
    /\ renewals' = Append(renewals,
           [by |-> c, url |-> UrlRefresh, sent |-> refreshToken,
            outcome |-> "pending", data |-> null, number |-> 0])
    /\ pc' = [pc EXCEPT ![c] = "refresh"]
    /\ branch' = [branch EXCEPT ![c] = "refresh"]
    /\ UNCHANGED <<failedQueue, localStorage, cookie, pathRead, result,
                   enqueuedIn, navigations>>

\* Variant of IsUnauthorized: the comparison written as an assignment, which
\* is true for every response.
IsUnauthorized_always(status) == TRUE

\* app.js:43
IsUnauthorized(status) == status = 401

\* app.js:43-118: a 401 response r.
Unauthorized(c, r) ==
    /\ observed' = [observed EXCEPT ![c] =
           [refreshing |-> isRefreshing,
            stored |-> Truthy(localStorage.refresh_token),
            completed |-> Cardinality(Completed)]]
    /\ IF QueueThisRequest(isRefreshing)
       THEN Enqueue(c)
       ELSE IF AbortRefresh(localStorage.refresh_token, url[c])
            THEN \E pathname \in Paths : Logout(c, r, pathname)
            ELSE StartRefresh(c, localStorage.refresh_token)

\* app.js:40-43, 51, 102, 120: the network answers a dispatch of the call's
\* own request with a status.
Response(c, status) ==
    /\ pc[c] \in {"first", "retry", "waiterRetry"}
    /\ microtasks = <<>>
    /\ IF Inspected(pc[c])
       THEN /\ response' = [response EXCEPT ![c] = status]
            /\ IF IsUnauthorized(status)
               THEN Unauthorized(c, Resp(Len(sent[c]), status))
               ELSE /\ Return(c, Resp(Len(sent[c]), status))
                    /\ branch' = [branch EXCEPT ![c] = "pass"]
                    /\ UNCHANGED <<isRefreshing, failedQueue, localStorage,
                                   cookie, pathRead, renewals, enqueuedIn,
                                   navigations, observed>>
       ELSE /\ Return(c, Resp(Len(sent[c]), status))
            /\ UNCHANGED <<isRefreshing, failedQueue, localStorage, cookie,
                           pathRead, response, renewals, enqueuedIn,
                           navigations, branch, observed>>
    /\ UNCHANGED <<url, authHeader, sent, microtasks, issued, settlements>>
    /\ UNCHANGED componentVars

\* app.js:52-54, 121-124: a dispatch of the call's own request is rejected.
\* The first dispatch and the initiator's retry reject the returned promise;
\* the waiter's retry is inside the chain closed by .catch, which returns the
\* first response.
NetworkError(c) ==
    /\ pc[c] \in {"first", "retry", "waiterRetry"}
    /\ microtasks = <<>>
    /\ IF pc[c] = "waiterRetry"
       THEN Return(c, Resp(1, response[c]))
       ELSE Return(c, Err(Len(sent[c])))
    /\ branch' = [branch EXCEPT ![c] = IF pc[c] = "first" THEN "error" ELSE @]
    /\ UNCHANGED <<isRefreshing, failedQueue, localStorage, cookie, pathRead,
                   url, authHeader, response, sent, microtasks, issued,
                   renewals, settlements, enqueuedIn, navigations, observed>>
    /\ UNCHANGED componentVars

\* The refresh call the call c has started and not finished.
RenewalOf(c) ==
    CHOOSE k \in 1..Len(renewals) :
        renewals[k].by = c /\ renewals[k].outcome \in {"pending", "reading"}

\* The invocations of resolve or reject made on the promise of call c by one
\* run of processQueue, recorded with the refresh call that made them.
SettledBy(reactions, c, k) ==
    LET own == SelectSeq(reactions, LAMBDA m : m.call = c)
    IN  [i \in 1..Len(own) |->
            [how |-> own[i].how, token |-> own[i].token, renewal |-> k]]

\* Settling a promise a second time has no effect: only the first invocation
\* schedules the reaction of the waiter.
Scheduled(reactions) ==
    SelectSeq(reactions, LAMBDA m : settlements[m.call] = <<>>)

\* The effect of processQueue(error, token) run by refresh call k.
RunProcessQueue(k, error, token) ==
    LET reactions == processQueue(failedQueue, error, token)
    IN  /\ settlements' = [c \in Calls |->
                              settlements[c] \o SettledBy(reactions, c, k)]
        /\ microtasks' = microtasks \o Scheduled(reactions)
        /\ failedQueue' = QueueAfterProcess(failedQueue)

\* app.js:107-117: the refresh failed. Line 112 assigns location.href
\* whatever the pathname of the page is; the pathname is recorded, not tested.
RefreshFailed(c) ==
    LET k == RenewalOf(c)
    IN  /\ RunProcessQueue(k, TRUE, null)
        /\ localStorage' = RemoveTokens(localStorage)
        /\ \E pathname \in Paths : /\ pathRead \in {null, pathname}
                                   /\ pathRead' = pathname
        /\ navigations' = Navigate(navigations)
        /\ Return(c, Resp(1, response[c]))
        /\ isRefreshing' = FinallyIsRefreshing
        /\ renewals' = [renewals EXCEPT ![k].outcome = "failed"]
        /\ UNCHANGED <<cookie, url, authHeader, response, sent,
                       issued, enqueuedIn, branch, observed>>

\* app.js:79-87, 104-106: the refresh endpoint answers with a status.
RefreshResponse(c, status) ==
    /\ pc[c] = "refresh"
    /\ microtasks = <<>>
    /\ IF Ok(status)
       THEN /\ pc' = [pc EXCEPT ![c] = "json"]
            /\ issued' = issued + 1
            /\ renewals' = [renewals EXCEPT ![RenewalOf(c)].outcome = "reading",
                                            ![RenewalOf(c)].number = issued + 1]
            /\ UNCHANGED <<isRefreshing, failedQueue, localStorage, cookie,
                           pathRead, url, authHeader, response, result, sent,
                           microtasks, settlements, enqueuedIn, navigations,
                           branch, observed>>
       ELSE RefreshFailed(c)
    /\ UNCHANGED componentVars

\* app.js:79, 107: the refresh call is rejected.
RefreshNetworkError(c) ==
    /\ pc[c] = "refresh"
    /\ microtasks = <<>>
    /\ RefreshFailed(c)
    /\ UNCHANGED componentVars

\* app.js:89-102, 115-117: the refresh succeeded with the body data.
RefreshSucceeded(c, data) ==
    LET k == RenewalOf(c)
    IN  /\ localStorage' = SaveTokens(localStorage, data)
        /\ cookie' = CookieFor(data)
        /\ RunProcessQueue(k, FALSE, data.access_token)
        /\ authHeader' = [authHeader EXCEPT ![c] = injectToken(data.access_token)]
        /\ sent' = [sent EXCEPT
               ![c] = Append(@, Dispatch(url[c], injectToken(data.access_token)))]
        /\ pc' = [pc EXCEPT ![c] = "retry"]
        /\ isRefreshing' = FinallyIsRefreshing
        /\ renewals' = [renewals EXCEPT ![k].outcome = "ok", ![k].data = data]
        /\ UNCHANGED <<pathRead, url, response, result, issued, enqueuedIn,
                       navigations, branch, observed>>

\* app.js:87: the body the server sent is read.
RefreshBody(c) ==
    /\ pc[c] = "json"
    /\ microtasks = <<>>
    /\ \E data \in RefreshData(renewals[RenewalOf(c)].number) :
           RefreshSucceeded(c, data)
    /\ UNCHANGED componentVars

\* app.js:87, 107: reading the body of the refresh response fails.
RefreshBodyError(c) ==
    /\ pc[c] = "json"
    /\ microtasks = <<>>
    /\ RefreshFailed(c)
    /\ UNCHANGED componentVars

\* app.js:49-54: the reaction of the waiter whose promise was settled first.
Microtask ==
    /\ microtasks /= <<>>
    /\ LET m == Head(microtasks)
           c == m.call
       IN  /\ microtasks' = Tail(microtasks)
           /\ IF m.how = "resolve"
              THEN /\ authHeader' = [authHeader EXCEPT ![c] = injectToken(m.token)]
                   /\ sent' = [sent EXCEPT
                          ![c] = Append(@, Dispatch(url[c], injectToken(m.token)))]
                   /\ pc' = [pc EXCEPT ![c] = "waiterRetry"]
                   /\ UNCHANGED result
              ELSE /\ Return(c, Resp(1, response[c]))
                   /\ UNCHANGED <<authHeader, sent>>
    /\ UNCHANGED <<isRefreshing, failedQueue, localStorage, cookie, pathRead,
                   url, response, issued, renewals, settlements, enqueuedIn,
                   navigations, branch, observed>>
    /\ UNCHANGED componentVars

Next ==
    \/ \E c \in Calls, u \in Urls : Fetch(c, u)
    \/ \E c \in Calls, status \in Statuses : Response(c, status)
    \/ \E c \in Calls : NetworkError(c)
    \/ \E c \in Calls, status \in RefreshStatuses : RefreshResponse(c, status)
    \/ \E c \in Calls : RefreshNetworkError(c)
    \/ \E c \in Calls : RefreshBody(c)
    \/ \E c \in Calls : RefreshBodyError(c)
    \/ Microtask

Spec == Init /\ [][Next]_vars

\* Every network call completes and every scheduled reaction runs.
Network ==
    \/ \E c \in Calls, status \in Statuses : Response(c, status)
    \/ \E c \in Calls : NetworkError(c)
    \/ \E c \in Calls, status \in RefreshStatuses : RefreshResponse(c, status)
    \/ \E c \in Calls : RefreshNetworkError(c)
    \/ \E c \in Calls : RefreshBody(c)
    \/ \E c \in Calls : RefreshBodyError(c)

FairSpec == Spec /\ WF_vars(Network) /\ WF_vars(Microtask)

\* A refresh response with status 200 whose body has an empty access_token,
\* or none.
MalformedRefreshData(n) ==
    { [access_token |-> t, refresh_token |-> RefreshToken(n),
       lifetime_in_seconds |-> l] :
          t \in {EmptyString, UndefinedText}, l \in Lifetimes }

\* app.js:87-102 on such a body.
RefreshBodyMalformed(c) ==
    /\ pc[c] = "json"
    /\ microtasks = <<>>
    /\ \E data \in MalformedRefreshData(renewals[RenewalOf(c)].number) :
           RefreshSucceeded(c, data)
    /\ UNCHANGED componentVars

\* The wrapper with a refresh endpoint that may also answer such bodies.
LaxNext ==
    \/ Next
    \/ \E c \in Calls : RefreshBodyMalformed(c)

LaxSpec == Init /\ [][LaxNext]_vars

\* Statuses of the failed HTMX responses that raise htmx:responseError.
HtmxErrorStatuses == {401, 500}

\* app.js:298-307: the htmx:responseError handler.  On a 401 it removes the
\* key 'token' and assigns location.href; on any other status it logs and
\* shows a toast.
HtmxResponseError(status) ==
    /\ htmxLogouts < MaxHtmxLogouts
    /\ IF status = 401
       THEN /\ localStorage' = [localStorage EXCEPT !.token = null]
            /\ navigations' = Navigate(navigations)
            /\ htmxLogouts' = htmxLogouts + 1
       ELSE UNCHANGED <<localStorage, navigations, htmxLogouts>>
    /\ UNCHANGED <<isRefreshing, failedQueue, cookie, pathRead, pc, url,
                   authHeader, response, result, sent, microtasks, issued,
                   renewals, settlements, enqueuedIn, branch, observed,
                   htmxRest>>

\* The wrapper together with the HTMX handler, which share localStorage and
\* the location.
HtmxNext ==
    \/ Next
    \/ \E status \in HtmxErrorStatuses : HtmxResponseError(status)

HtmxSpec == Init /\ [][HtmxNext]_vars

----
\* Alpine.store('batch') (app.js:196-244): the selection of items for batch
\* operations.
BatchTypes == {"comic", "series"}
BatchIds == 1..MaxItemId

\* app.js:213: the key `${type}:${id}`.
Key(type, id) == <<type, ":", id>>

\* app.js:202
count == Cardinality(batchItems)

\* app.js:203
active == Cardinality(batchItems) > 0

\* app.js:206
allRead == count > 0 /\ readCount = count

\* app.js:209-211
has(id, type) == Key(type, id) \in batchItems

\* app.js:212-222
toggle(id, type, isRead) ==
    LET key == Key(type, id)
    IN  /\ IF key \in batchItems
           THEN /\ batchItems' = batchItems \ {key}
                /\ readCount' = IF isRead THEN readCount - 1 ELSE readCount
                /\ readKeys' = readKeys \ {key}
           ELSE /\ batchItems' = batchItems \cup {key}
                /\ readCount' = IF isRead THEN readCount + 1 ELSE readCount
                /\ readKeys' = IF isRead THEN readKeys \cup {key} ELSE readKeys
        /\ readCount' \in -MaxReadCount..MaxReadCount
        /\ UNCHANGED batchRest

\* app.js:242
clear ==
    /\ batchItems' = {}
    /\ readCount' = 0
    /\ readKeys' = {}
    /\ UNCHANGED batchRest

BatchInit ==
    /\ localStorage = [token |-> AccessToken(0), refresh_token |-> RefreshToken(0)]
    /\ Constructed
    /\ ComponentsIdle

BatchNext ==
    \/ \E id \in BatchIds, type \in BatchTypes, isRead \in BOOLEAN :
           toggle(id, type, isRead)
    \/ clear

BatchSpec == BatchInit /\ [][BatchNext]_vars

----
\* paginationMixin (part_003:390-489): one list loaded page by page.  The
\* server answers a load with the items of the page asked for and the total
\* number of items it has at that moment.

\* part_003:397: size, for a component configured with pageSize 2.
PageSize == 2

\* Totals the server reports.
Totals == {0, 3, 5}

\* data.items for a page: one entry naming the page.
PageItems(p) == <<p>>

\* Math.ceil(a / b) for a >= 0 and b > 0.
Ceil(a, b) == (a + b - 1) \div b

\* Variant of maxPage without the fallback to 1.
maxPage_noFallback == Ceil(total, PageSize)

\* part_003:485-487: Math.ceil(this.total / this.size) || 1
maxPage == IF Ceil(total, PageSize) = 0 THEN 1 ELSE Ceil(total, PageSize)

\* Variant of OutOfRange without the lower limit.
OutOfRange_noLower(newPage, limit) == newPage > limit

\* part_003:454-456: the two early returns of changePage.
OutOfRange(newPage, limit) == newPage < 1 \/ newPage > limit

\* part_003:402-423: loadItems up to its await, for the page p that
\* this.page holds when it is called.
loadItems(append, p) ==
    /\ fetched < MaxLoads
    /\ loading' = TRUE
    /\ fetched' = fetched + 1
    /\ inflight' = inflight \cup
           {[id |-> fetched + 1, page |-> p, size |-> PageSize,
             append |-> append]}

\* A component calls loadItems() itself, as it does when it is set up.
Load ==
    /\ lastCall' = [op |-> "loadItems", arg |-> 0]
    /\ loadItems(FALSE, page)
    /\ UNCHANGED <<items, page, total, answered>>
    /\ UNCHANGED paginationRest

\* part_003:453-460
changePage(newPage) ==
    /\ lastCall' = [op |-> "changePage", arg |-> newPage]
    /\ IF OutOfRange(newPage, maxPage)
       THEN UNCHANGED <<page, loading, inflight, fetched>>
       ELSE /\ page' = newPage
            /\ loadItems(FALSE, newPage)
    /\ UNCHANGED <<items, total, answered>>
    /\ UNCHANGED paginationRest

\* part_003:477-483
loadMore ==
    /\ lastCall' = [op |-> "loadMore", arg |-> 0]
    /\ IF page < maxPage
       THEN /\ page' = page + 1
            /\ loadItems(TRUE, page + 1)
       ELSE UNCHANGED <<page, loading, inflight, fetched>>
    /\ UNCHANGED <<items, total, answered>>
    /\ UNCHANGED paginationRest

\* part_003:422-446: the fetch r is answered and its body read; the two
\* awaits change nothing in between and are taken as one step.
LoadResponse(r, newTotal) ==
    /\ r \in inflight
    /\ inflight' = inflight \ {r}
    /\ items' = IF r.append THEN items \o PageItems(r.page)
                            ELSE PageItems(r.page)
    /\ total' = newTotal
    /\ loading' = FALSE
    /\ answered' = answered \cup {[load |-> r, ok |-> TRUE]}
    /\ UNCHANGED <<page, fetched, lastCall>>
    /\ UNCHANGED paginationRest

\* part_003:438-446: the fetch r is rejected, or its body is not JSON.
LoadError(r) ==
    /\ r \in inflight
    /\ inflight' = inflight \ {r}
    /\ loading' = FALSE
    /\ answered' = answered \cup {[load |-> r, ok |-> FALSE]}
    /\ UNCHANGED <<items, page, total, fetched, lastCall>>
    /\ UNCHANGED paginationRest

PaginationInit ==
    /\ localStorage = [token |-> AccessToken(0), refresh_token |-> RefreshToken(0)]
    /\ Constructed
    /\ ComponentsIdle

PaginationNext ==
    \/ Load
    \/ \E newPage \in 0..MaxPageArg : changePage(newPage)
    \/ loadMore
    \/ \E r \in inflight, newTotal \in Totals : LoadResponse(r, newTotal)
    \/ \E r \in inflight : LoadError(r)

PaginationSpec == PaginationInit /\ [][PaginationNext]_vars

----
\* debounce (app.js:359-369, part_003:314-325): one function made by
\* debounce(func, wait).  A timer set by setTimeout(later, wait) at time t is
\* due at t + wait; its callback runs at the due time or later, and a call
\* made once the timer is due may still come before the callback.

\* The wait the function was made with.
Wait == 2

\* Arguments the function is called with.
DebounceArgs == {"a", "b"}

\* Variant of clearTimeout that clears nothing.
clearTimeout_none(ts, id) == ts

\* clearTimeout(id): the timer with this id, if still set, is dropped.
clearTimeout(ts, id) == {t \in ts : t.id /= id}

\* app.js:361-367: executedFunction(...args)
executedFunction(args) ==
    /\ Len(debounceCalls) < MaxDebounceCalls
    /\ debounceCalls' = Append(debounceCalls, [args |-> args, at |-> clock])
    /\ LET id == Len(debounceCalls) + 1
           kept == clearTimeout(timers, timeout)
       IN  /\ timers' = kept \cup {[id |-> id, due |-> clock + Wait, args |-> args]}
           /\ cleared' = cleared \cup {t.id : t \in timers \ kept}
           /\ timeout' = id
    /\ UNCHANGED <<clock, runs>>
    /\ UNCHANGED debounceRest

\* app.js:362-365: later, the callback of the timer t.
later(t) ==
    /\ t \in timers
    /\ clock >= t.due
    /\ LET kept == clearTimeout(timers \ {t}, timeout)
       IN  /\ timers' = kept
           /\ cleared' = cleared \cup {u.id : u \in (timers \ {t}) \ kept}
    /\ runs' = Append(runs, [args |-> t.args, at |-> clock,
                             call |-> Len(debounceCalls)])
    /\ UNCHANGED <<timeout, clock, debounceCalls>>
    /\ UNCHANGED debounceRest

\* Time passes; a timer callback runs at most MaxLate after it is due.
Tick ==
    /\ clock < MaxTime
    /\ \A t \in timers : clock < t.due + MaxLate
    /\ clock' = clock + 1
    /\ UNCHANGED <<timeout, timers, debounceCalls, runs, cleared>>
    /\ UNCHANGED debounceRest

DebounceInit ==
    /\ localStorage = [token |-> AccessToken(0), refresh_token |-> RefreshToken(0)]
    /\ Constructed
    /\ ComponentsIdle

DebounceNext ==
    \/ \E args \in DebounceArgs : executedFunction(args)
    \/ \E t \in timers : later(t)
    \/ Tick

DebounceSpec == DebounceInit /\ [][DebounceNext]_vars

----
\* The header container of a call (app.js:22-37, 50, 101).  A header
\* container is [kind, entries]: kind tells a Headers instance from a plain
\* object, entries maps header names to values.  Names are taken as the
\* caller spelled them, and the caller spells Authorization as line 31 does.
HeaderNames == {"Accept", "Content-Type", "Authorization"}

\* The value a caller gives a header of its own.
CallerValue(name) == <<"caller", name>>

\* What a caller can pass as options.headers: nothing, or a container of
\* either kind holding some of the headers.
HeadersInits ==
    {null} \cup
    { [kind |-> k, entries |-> [n \in S |-> CallerValue(n)]] :
          k \in {"Headers", "object"}, S \in SUBSET HeaderNames }

\* app.js:24: options.headers || {}
HeadersOrEmpty(h) ==
    IF Truthy(h) THEN h ELSE [kind |-> "object", entries |-> <<>>]

\* Headers.prototype.set, and assignment to a property of a plain object.
HeaderSet(entries, name, value) ==
    [n \in DOMAIN entries \cup {name} |->
        IF n = name THEN value ELSE entries[n]]

\* Variant of injectInto that builds a fresh container holding Authorization
\* alone.
injectInto_fresh(headers, token) ==
    [headers EXCEPT !.entries =
        [n \in {"Authorization"} |-> injectToken(token)]]

\* app.js:27-33: injectToken applied to the container of the call.
injectInto(headers, token) ==
    IF headers.kind = "Headers"
    THEN [headers EXCEPT
             !.entries = HeaderSet(@, "Authorization", injectToken(token))]
    ELSE [headers EXCEPT
             !.entries = HeaderSet(@, "Authorization", injectToken(token))]

\* Tokens a refresh can hand to a call for its retry.
RenewedTokens == {AccessToken(1), AccessToken(2)}

\* Values the wrapper's own writes leave under the key 'token'.
StoredTokens == {null, AccessToken(0), AccessToken(1)}

HeaderInit ==
    /\ localStorage \in [token : {null, AccessToken(0)},
                         refresh_token : {null, RefreshToken(0)}]
    /\ Constructed
    /\ ComponentsIdle

\* app.js:22-40: a call with the headers init, up to its first dispatch.
HeaderFetch(init) ==
    /\ options = null
    /\ callerHeaders' = init
    /\ options' = IF Truthy(localStorage.token)
                  THEN injectInto(HeadersOrEmpty(init), localStorage.token)
                  ELSE HeadersOrEmpty(init)
    /\ dispatched' = <<options'.entries>>
    /\ UNCHANGED <<localStorage, callVars, headerRest>>

\* app.js:50-51 and 101-102: the token is injected again and the same
\* options are dispatched a second time.
HeaderRetry(token) ==
    /\ options /= null
    /\ Len(dispatched) = 1
    /\ options' = injectInto(options, token)
    /\ dispatched' = Append(dispatched, options'.entries)
    /\ UNCHANGED <<localStorage, callVars, callerHeaders, headerRest>>

\* app.js:120 and the other returns: the call ends and the next one can be
\* made.
HeaderReturn ==
    /\ options /= null
    /\ callerHeaders' = null
    /\ options' = null
    /\ dispatched' = <<>>
    /\ UNCHANGED <<localStorage, callVars, headerRest>>

\* app.js:65, 90, 110: between two calls the key 'token' is written or
\* removed.
TokenWritten(token) ==
    /\ options = null
    /\ localStorage.token /= token
    /\ localStorage' = [localStorage EXCEPT !.token = token]
    /\ UNCHANGED <<callVars, headerVars, headerRest>>

HeaderNext ==
    \/ \E init \in HeadersInits : HeaderFetch(init)
    \/ \E token \in RenewedTokens : HeaderRetry(token)
    \/ HeaderReturn
    \/ \E token \in StoredTokens : TokenWritten(token)

HeaderSpec == HeaderInit /\ [][HeaderNext]_vars

----
\* C1: at most one call of the refresh endpoint is in flight at any time, and
\* isRefreshing is true exactly while one is; a refresh call is started only
\* in a step that finds isRefreshing false and sets it, and a call that
\* observes its 401 while isRefreshing is true is appended to failedQueue and
\* starts no refresh call.
SingleFlight ==
    /\ [](LET inFlight == {k \in 1..Len(renewals) :
                              renewals[k].outcome \in {"pending", "reading"}}
          IN  /\ Cardinality(inFlight) <= 1
              /\ isRefreshing <=> inFlight /= {})
    /\ [][/\ Len(renewals') > Len(renewals) =>
                /\ ~isRefreshing
                /\ isRefreshing'
                /\ Len(renewals') = Len(renewals) + 1
          /\ \A c \in Calls :
                (pc[c] = "first" /\ observed'[c] /= observed[c] /\ isRefreshing) =>
                    /\ pc'[c] = "queued"
                    /\ failedQueue' = Append(failedQueue, c)
                    /\ renewals' = renewals]_vars

\* C1 witness: two calls are queued behind a refresh call in flight.
SingleFlightWitness ==
    /\ isRefreshing
    /\ Len(failedQueue) = 2
    /\ renewals[Len(renewals)].outcome = "pending"

\* C2 as stated: when every call made so far was dispatched with the same
\* credential to a target other than a credential endpoint and received a 401
\* while a refresh token was stored, exactly one refresh call has been issued,
\* whenever the 401 responses and the refresh response arrived.
OneRenewalAnyOrder ==
    LET started == {c \in Calls : pc[c] /= "idle"}
    IN  (/\ started /= {}
         /\ \A c \in started :
               /\ observed[c] /= null
               /\ observed[c].stored
               /\ ~Includes(url[c], <<"/", "token">>)
               /\ ~Includes(url[c], <<"/", "refresh">>)
               /\ sent[c][1].auth = sent[1][1].auth)
        => Len(renewals) = 1

\* C2 amended: the same, for calls whose 401 responses are all observed
\* before the first refresh call has completed.
OneRenewalBeforeCompletion ==
    LET started == {c \in Calls : pc[c] /= "idle"}
    IN  (/\ started /= {}
         /\ \A c \in started :
               /\ observed[c] /= null
               /\ observed[c].stored
               /\ observed[c].completed = 0
               /\ ~Includes(url[c], <<"/", "token">>)
               /\ ~Includes(url[c], <<"/", "refresh">>)
               /\ sent[c][1].auth = sent[1][1].auth)
        => Len(renewals) = 1

\* C2 witness: all calls received a 401 before the one refresh call completed,
\* and all have settled.
OneRenewalWitness ==
    /\ \A c \in Calls :
          /\ pc[c] = "done"
          /\ observed[c] /= null
          /\ observed[c].stored
          /\ observed[c].completed = 0
          /\ url[c] = UrlComics
          /\ sent[c][1].auth = sent[1][1].auth
    /\ Len(renewals) = 1

\* C3: after a successful refresh, the call that started it and every call
\* queued during it has dispatched its own request a second time, exactly
\* once, with the access token that refresh returned; a waiter that has not
\* done so yet has its reaction scheduled.
RetryWithRenewedToken ==
    \A c \in Calls : \A k \in 1..Len(renewals) :
        (/\ renewals[k].outcome = "ok"
         /\ \/ renewals[k].by = c
            \/ branch[c] = "queued" /\ enqueuedIn[c] = k)
        => IF pc[c] = "queued"
           THEN \E i \in 1..Len(microtasks) : microtasks[i].call = c
           ELSE /\ Len(sent[c]) = 2
                /\ sent[c][2].url = sent[c][1].url
                /\ sent[c][2].auth = injectToken(renewals[k].data.access_token)

\* C3 witness: a refresh succeeded with two waiters, and the initiator and
\* both waiters have retried.
RetryWithRenewedTokenWitness ==
    \E k \in 1..Len(renewals) :
        /\ renewals[k].outcome = "ok"
        /\ Len(sent[renewals[k].by]) = 2
        /\ Cardinality({c \in Calls : /\ branch[c] = "queued"
                                      /\ enqueuedIn[c] = k
                                      /\ Len(sent[c]) = 2}) = 2

\* C4: whenever isRefreshing is false the queue is empty; resolve or reject
\* is invoked at most once on a waiter's promise; and the waiters settled by
\* one refresh call are all settled the same way with the same token.
QueueDrained ==
    /\ ~isRefreshing => failedQueue = <<>>
    /\ \A c \in Calls : Len(settlements[c]) <= 1
    /\ \A c, d \in Calls :
          (/\ settlements[c] /= <<>>
           /\ settlements[d] /= <<>>
           /\ settlements[c][1].renewal = settlements[d][1].renewal)
          => /\ settlements[c][1].how = settlements[d][1].how
             /\ settlements[c][1].token = settlements[d][1].token

\* C4 witness: two waiters were settled by the same refresh call, a later
\* refresh call has run, and the state is idle again.
QueueDrainedWitness ==
    /\ ~isRefreshing
    /\ \E c, d \in Calls :
          /\ c /= d
          /\ settlements[c] /= <<>>
          /\ settlements[d] /= <<>>
          /\ settlements[c][1].renewal = settlements[d][1].renewal

\* C5: a queued call is settled by the refresh call that was in flight when
\* it was queued, with that call's outcome (resolved with its access token or
\* rejected); until then it is in the queue of that refresh call, which is
\* still in flight.  No entry of the queue belongs to an earlier refresh call.
SettledBySameRenewal ==
    /\ \A c \in Calls :
          branch[c] = "queued" =>
              IF settlements[c] = <<>>
              THEN /\ pc[c] = "queued"
                   /\ \E i \in 1..Len(failedQueue) : failedQueue[i] = c
                   /\ enqueuedIn[c] = Len(renewals)
                   /\ renewals[enqueuedIn[c]].outcome \in {"pending", "reading"}
              ELSE \A i \in 1..Len(settlements[c]) :
                      LET s == settlements[c][i]
                          r == renewals[enqueuedIn[c]]
                      IN  /\ s.renewal = enqueuedIn[c]
                          /\ \/ /\ s.how = "resolve"
                                /\ r.outcome = "ok"
                                /\ s.token = r.data.access_token
                             \/ /\ s.how = "reject"
                                /\ r.outcome = "failed"
    /\ \A i \in 1..Len(failedQueue) : enqueuedIn[failedQueue[i]] = Len(renewals)

\* C5 witness: a call queued during the first refresh call was settled by it,
\* and a second refresh call has been started since.
SettledBySameRenewalWitness ==
    \E c \in Calls :
        /\ branch[c] = "queued"
        /\ enqueuedIn[c] = 1
        /\ settlements[c] /= <<>>
        /\ Len(renewals) = 2

\* C6: when every network call completes, eventually every call that was made
\* has settled, isRefreshing is false and no waiter is pending, for good.
EventuallySettled ==
    <>[](/\ \A c \in Calls : pc[c] \in {"idle", "done"}
         /\ ~isRefreshing
         /\ failedQueue = <<>>
         /\ microtasks = <<>>)

\* C6 witness: every call has settled after a refresh with a waiter.
EventuallySettledWitness ==
    /\ \A c \in Calls : pc[c] = "done"
    /\ \E c \in Calls : branch[c] = "queued"
    /\ ~isRefreshing

\* C7: a call dispatches its request at most twice, and the answer to a retry
\* (also a 401) ends the call with that answer: it starts no refresh call,
\* queues nothing and dispatches nothing.
RetryIsFinal ==
    /\ [](\A c \in Calls : Len(sent[c]) <= 2)
    /\ [][\A c \in Calls :
            (pc[c] \in {"retry", "waiterRetry"} /\ pc'[c] /= pc[c]) =>
                /\ pc'[c] = "done"
                /\ result'[c] \in {Resp(2, status) : status \in Statuses}
                                  \cup {Err(2), Resp(1, response[c])}
                /\ renewals' = renewals
                /\ failedQueue' = failedQueue
                /\ isRefreshing' = isRefreshing
                /\ sent' = sent]_vars

\* C7 witness: the initiator and a waiter both got a 401 for their retry as
\* the result.
RetryIsFinalWitness ==
    \E c, d \in Calls :
        /\ branch[c] = "refresh"
        /\ branch[d] = "queued"
        /\ result[c] = Resp(2, 401)
        /\ result[d] = Resp(2, 401)

\* C8: the login and the refresh endpoint satisfy the abort condition; no
\* refresh call is ever started by a call to a credential endpoint; and the
\* answer to the refresh call either is read as the new tokens or fails the
\* refresh and ends its initiator with the first 401, never starting another
\* refresh call.
CredentialEndpointsNeverRenew ==
    /\ AbortRefresh(RefreshToken(0), UrlLogin)
    /\ AbortRefresh(RefreshToken(0), UrlRefresh)
    /\ [](\A k \in 1..Len(renewals) :
             /\ ~Includes(url[renewals[k].by], <<"/", "token">>)
             /\ ~Includes(url[renewals[k].by], <<"/", "refresh">>))
    /\ [][\A c \in Calls :
            (pc[c] = "refresh" /\ pc'[c] /= "refresh") =>
                /\ Len(renewals') = Len(renewals)
                /\ \/ pc'[c] = "json"
                   \/ /\ pc'[c] = "done"
                      /\ result'[c] = Resp(1, 401)
                      /\ \E k \in 1..Len(renewals) :
                            /\ renewals[k].by = c
                            /\ renewals'[k].outcome = "failed"]_vars

\* C8 witness: a call to the login endpoint got a 401 while idle with a
\* refresh token stored, and no refresh call was made.
CredentialEndpointsWitness ==
    \E c \in Calls :
        /\ url[c] = UrlLogin
        /\ branch[c] = "logout"
        /\ observed[c].stored
        /\ renewals = <<>>

\* C9: a 401 observed while isRefreshing is false and no refresh token is
\* stored issues no refresh call, removes both tokens, assigns the login page
\* to window.location.href unless the page is the login page, and returns the
\* 401 response without a retry.
NoRefreshTokenLogout ==
    [][\A c \in Calls :
         (/\ pc[c] = "first"
          /\ observed'[c] /= observed[c]
          /\ ~isRefreshing
          /\ ~Truthy(localStorage.refresh_token)) =>
             /\ renewals' = renewals
             /\ localStorage' = [token |-> null, refresh_token |-> null]
             /\ navigations' = IF Includes(pathRead', PathLogin)
                               THEN navigations
                               ELSE navigations + 1
             /\ pc'[c] = "done"
             /\ result'[c] = Resp(1, 401)
             /\ sent' = sent
             /\ UNCHANGED <<isRefreshing, failedQueue, microtasks>>]_vars

\* C9 witness: a call dispatched with a stored access token got a 401 with no
\* refresh token stored and was logged out.
NoRefreshTokenLogoutWitness ==
    \E c \in Calls :
        /\ branch[c] = "logout"
        /\ ~observed[c].stored
        /\ ~observed[c].refreshing
        /\ sent[c][1].auth = injectToken(AccessToken(0))
        /\ localStorage.token = null
        /\ navigations = 1

\* C10: consecutive refresh calls never send the same refresh token: each
\* sends the one the previous, successful, refresh call stored, and after a
\* failed refresh call no refresh token is stored and no refresh call follows.
RefreshTokenRotates ==
    /\ \A k \in 1..(Len(renewals) - 1) :
          /\ renewals[k].sent /= renewals[k + 1].sent
          /\ renewals[k].outcome = "ok"
          /\ renewals[k + 1].sent = renewals[k].data.refresh_token
    /\ \A k \in 1..Len(renewals) :
          renewals[k].outcome = "failed" =>
              /\ k = Len(renewals)
              /\ ~Truthy(localStorage.refresh_token)

\* C10 witness: three refresh calls were made, the last one failed.
RefreshTokenRotatesWitness ==
    /\ Len(renewals) = 3
    /\ renewals[3].outcome = "failed"

\* C11: after a refresh call has failed (rejected, answered with a status
\* that is not ok, or its body unreadable) both tokens are removed, every
\* call queued during it had reject invoked on its promise, once, and neither
\* the call that started it nor any call queued during it has dispatched its
\* request a second time.
RenewalFailureClearsAndRejects ==
    \A k \in 1..Len(renewals) :
        renewals[k].outcome = "failed" =>
            /\ localStorage = [token |-> null, refresh_token |-> null]
            /\ Len(sent[renewals[k].by]) = 1
            /\ \A c \in Calls :
                  (branch[c] = "queued" /\ enqueuedIn[c] = k) =>
                      /\ Len(settlements[c]) = 1
                      /\ settlements[c][1].how = "reject"
                      /\ settlements[c][1].renewal = k
                      /\ Len(sent[c]) = 1
                      /\ pc[c] \in {"queued", "done"}

\* C11 witness: a refresh call failed with two calls queued, and all three
\* calls have ended without a retry.
RenewalFailureWitness ==
    \E k \in 1..Len(renewals) :
        /\ renewals[k].outcome = "failed"
        /\ Cardinality({c \in Calls : /\ branch[c] = "queued"
                                      /\ enqueuedIn[c] = k
                                      /\ pc[c] = "done"}) = 2
        /\ \A c \in Calls : Len(sent[c]) = 1

\* C12: the step in which a refresh call fails is a step of the call that
\* started it, and that step removes both tokens and assigns location.href
\* once; the reaction of a call queued during that refresh removes nothing
\* and assigns nothing. So a failed refresh with any number of queued calls,
\* and no other 401 outside it, ends with one assignment in total.
TerminationOncePerFailedRenewal ==
    /\ [][ /\ \A k \in 1..Len(renewals) :
                (renewals[k].outcome /= "failed"
                    /\ renewals'[k].outcome = "failed") =>
                    /\ pc[renewals[k].by] \in {"refresh", "json"}
                    /\ pc'[renewals[k].by] = "done"
                    /\ navigations' = navigations + 1
                    /\ localStorage' = [token |-> null, refresh_token |-> null]
           /\ \A c \in Calls :
                (/\ pc[c] = "queued"
                 /\ pc'[c] /= "queued"
                 /\ renewals[enqueuedIn[c]].outcome = "failed") =>
                    /\ navigations' = navigations
                    /\ localStorage' = localStorage ]_vars
    /\ [](\A k \in 1..Len(renewals) :
             (/\ renewals[k].outcome = "failed"
              /\ \A c \in Calls : \/ pc[c] = "idle"
                                  \/ c = renewals[k].by
                                  \/ (branch[c] = "queued" /\ enqueuedIn[c] = k))
                 => navigations = 1)

\* C12 witness: a refresh failed with two calls queued, both of them have
\* run their reaction, and location.href was assigned once.
TerminationOnceWitness ==
    /\ navigations = 1
    /\ \E k \in 1..Len(renewals) :
          /\ renewals[k].outcome = "failed"
          /\ \A c \in Calls \ {renewals[k].by} :
                /\ branch[c] = "queued"
                /\ enqueuedIn[c] = k
                /\ pc[c] = "done"
                /\ settlements[c][1].how = "reject"

\* C13: however many calls end in a logout (through a failed refresh, through
\* the branch without a refresh call, or through a 401 that arrives after the
\* tokens were removed), location.href is assigned at most once in total.
SingleLoginNavigation == navigations <= 1

\* C14: no step assigns location.href while the pathname of the page already
\* contains /login, neither the logout without a refresh call nor the
\* failure of a refresh call.
NoNavigationOnLoginPage ==
    [][navigations' /= navigations => ~Includes(pathRead', PathLogin)]_vars

\* C15: when a refresh call has failed, the call that started it and every
\* call queued during it end with their own first response, the 401; and a
\* queued call resumes only in a state where the tokens are already removed,
\* location.href already assigned and isRefreshing already false, which is
\* also the state the starting call's step leaves behind.
Original401AfterTermination ==
    /\ [](\A k \in 1..Len(renewals) : \A c \in Calls :
             (/\ renewals[k].outcome = "failed"
              /\ \/ c = renewals[k].by
                 \/ (branch[c] = "queued" /\ enqueuedIn[c] = k)
              /\ pc[c] = "done") =>
                 /\ response[c] = 401
                 /\ result[c] = Resp(1, response[c])
                 /\ localStorage = [token |-> null, refresh_token |-> null]
                 /\ navigations >= 1
                 /\ ~isRefreshing)
    /\ [][\A c \in Calls :
             (/\ pc[c] = "queued"
              /\ pc'[c] /= "queued"
              /\ settlements[c][1].how = "reject") =>
                 /\ renewals[enqueuedIn[c]].outcome = "failed"
                 /\ localStorage = [token |-> null, refresh_token |-> null]
                 /\ navigations >= 1
                 /\ ~isRefreshing
                 /\ pc[renewals[enqueuedIn[c]].by] = "done"
                 /\ pc'[c] = "done"]_vars

\* C15 witness: a refresh failed, and the call that started it and a call
\* queued during it have both ended with their first response.
Original401Witness ==
    \E k \in 1..Len(renewals) : \E c \in Calls :
        /\ renewals[k].outcome = "failed"
        /\ branch[c] = "queued"
        /\ enqueuedIn[c] = k
        /\ pc[c] = "done"
        /\ result[c] = Resp(1, 401)
        /\ result[renewals[k].by] = Resp(1, 401)

\* C16: the step that observes a first response whose status is not 401 ends
\* the call with that response after its single dispatch, starts no refresh
\* call, and leaves the tokens, the cookie, isRefreshing, the queue and the
\* location as they were; so does the step that dispatched the request.
PassThroughFrame ==
    [][\A c \in Calls :
          /\ (/\ pc[c] = "first"
              /\ pc'[c] /= "first"
              /\ response'[c] \notin {0, 401}) =>
                 /\ pc'[c] = "done"
                 /\ result'[c] = Resp(1, response'[c])
                 /\ Len(sent'[c]) = 1
                 /\ renewals' = renewals
                 /\ UNCHANGED <<localStorage, cookie, isRefreshing,
                                failedQueue, navigations, pathRead>>
          /\ (pc[c] = "idle" /\ pc'[c] = "first") =>
                 /\ Len(sent'[c]) = 1
                 /\ renewals' = renewals
                 /\ UNCHANGED <<localStorage, cookie, isRefreshing,
                                failedQueue, navigations, pathRead>>]_vars

\* C16 witness: a call has ended with its first response, a 200, after one
\* dispatch, while the refresh call of another call is in flight and a third
\* call is queued.
PassThroughWitness ==
    \E c \in Calls :
        /\ result[c] = Resp(1, 200)
        /\ Len(sent[c]) = 1
        /\ isRefreshing
        /\ failedQueue /= <<>>

\* C17: a call whose URL contains /token or /refresh and whose first response
\* is a 401 is never put in the queue and never dispatched a second time,
\* whether or not a refresh call is in flight when the 401 is observed.
CredentialEndpoint401ReturnedAsIs ==
    \A c \in Calls :
        (\/ Includes(url[c], <<"/", "token">>)
         \/ Includes(url[c], <<"/", "refresh">>)) =>
            /\ branch[c] /= "queued"
            /\ Len(sent[c]) <= 1

TokensStoredTogether ==
    \A m, n \in 0..issued :
        (/\ localStorage.token = AccessToken(m)
         /\ localStorage.refresh_token = RefreshToken(n)) => m = n

\* C19 witness: a refresh has stored the rotated pair while another call,
\* dispatched with the old access token, is still in flight.
TokensStoredTogetherWitness ==
    /\ localStorage = [token |-> AccessToken(1),
                       refresh_token |-> RefreshToken(1)]
    /\ \E c \in Calls :
          /\ pc[c] = "first"
          /\ sent[c][1].auth = injectToken(AccessToken(0))

\* C20: the step that completes a refresh call with the body {access_token A,
\* refresh_token R, lifetime_in_seconds L} leaves A stored as token, R stored
\* as refresh_token, the cookie access_token = A with path / and max-age L,
\* and dispatches the request of the call that started the refresh a second
\* time with the header Bearer A.
RenewalSuccessStoresAndRetries ==
    [][\A k \in 1..Len(renewals) :
          (renewals[k].outcome = "reading" /\ renewals'[k].outcome = "ok") =>
              LET data == renewals'[k].data
                  c == renewals[k].by
              IN  /\ data \in RefreshData(renewals[k].number)
                  /\ localStorage'.token = data.access_token
                  /\ localStorage'.refresh_token = data.refresh_token
                  /\ cookie'.name = "access_token"
                  /\ cookie'.value = data.access_token
                  /\ cookie'.path = "/"
                  /\ cookie'.maxAge = data.lifetime_in_seconds
                  /\ sent'[c] = Append(sent[c],
                         Dispatch(url[c], <<"Bearer", data.access_token>>))
                  /\ Len(sent'[c]) = 2
                  /\ pc'[c] = "retry"]_vars

\* C20 witness: a refresh call has succeeded; both tokens of its body are
\* stored, the cookie holds its access token and lifetime, and the request
\* that started it has been retried with the new token and answered 200.
RenewalSuccessWitness ==
    \E k \in 1..Len(renewals) :
        /\ renewals[k].outcome = "ok"
        /\ localStorage.token = renewals[k].data.access_token
        /\ localStorage.refresh_token = renewals[k].data.refresh_token
        /\ cookie /= null
        /\ cookie.value = renewals[k].data.access_token
        /\ cookie.maxAge = renewals[k].data.lifetime_in_seconds
        /\ sent[renewals[k].by][2].auth
               = <<"Bearer", renewals[k].data.access_token>>
        /\ result[renewals[k].by] = Resp(2, 200)

\* C21: the step that completes a refresh call successfully dispatches the
\* retry of the call that started it and only schedules the reactions of the
\* queued calls, in the order of the queue; the queue grows at its end; and a
\* queued call dispatches its retry only as the oldest reaction still
\* pending, after the retry of the call that started the refresh.
RetriesInOrder ==
    [][/\ \A k \in 1..Len(renewals) :
            (renewals[k].outcome = "reading" /\ renewals'[k].outcome = "ok") =>
                /\ Len(sent'[renewals[k].by]) = Len(sent[renewals[k].by]) + 1
                /\ \A i \in 1..Len(failedQueue) :
                      sent'[failedQueue[i]] = sent[failedQueue[i]]
                /\ Len(microtasks') = Len(failedQueue)
                /\ \A i \in 1..Len(failedQueue) :
                      /\ microtasks'[i].call = failedQueue[i]
                      /\ microtasks'[i].how = "resolve"
       /\ \A c \in Calls :
            (pc[c] /= "queued" /\ pc'[c] = "queued") =>
                failedQueue' = Append(failedQueue, c)
       /\ \A c \in Calls :
            (pc[c] = "queued" /\ pc'[c] = "waiterRetry") =>
                /\ microtasks /= <<>>
                /\ Head(microtasks).call = c
                /\ microtasks' = Tail(microtasks)
                /\ Len(sent[renewals[enqueuedIn[c]].by]) = 2]_vars

\* C21 witness: after a successful refresh the call that started it has been
\* retried, the call queued first has dispatched its retry and the call
\* queued second, though made earlier, is still waiting for its reaction.
RetriesInOrderWitness ==
    \E c1, c2 \in Calls :
        /\ c2 < c1
        /\ pc[c1] = "waiterRetry"
        /\ pc[c2] = "queued"
        /\ microtasks /= <<>>
        /\ Head(microtasks).call = c2
        /\ enqueuedIn[c1] = enqueuedIn[c2]
        /\ Len(sent[renewals[enqueuedIn[c1]].by]) = 2

\* C22: a step in which a dispatch of a call's own request ends without a
\* response (the dispatch is rejected) ends the call with the error of that
\* dispatch, for a first dispatch, for the retry of the call that started a
\* refresh and for the retry of a queued call alike, and starts no refresh
\* call, changes no token and assigns no location.
NetworkErrorSurfaced ==
    [][\A c \in Calls :
          (/\ pc[c] \in {"first", "retry", "waiterRetry"}
           /\ pc'[c] = "done"
           /\ response'[c] = response[c]
           /\ \A status \in Statuses :
                 result'[c] /= Resp(Len(sent[c]), status)) =>
              /\ result'[c] = Err(Len(sent[c]))
              /\ renewals' = renewals
              /\ UNCHANGED <<localStorage, cookie, isRefreshing, failedQueue,
                             navigations>>]_vars

CookieUntouchedByEmptyToken ==
    [][\A k \in 1..Len(renewals) :
          (/\ renewals[k].outcome = "reading"
           /\ renewals'[k].outcome = "ok"
           /\ renewals'[k].data.access_token \in {EmptyString, UndefinedText})
              => cookie' = cookie]_vars

\* C25: a step of the wrapper that changes a stored token is the success of
\* a refresh call, which stores both tokens of its body, or the failure of a
\* refresh call, which removes both, or the logout without a refresh call,
\* which removes both; a first dispatch, the queueing of a call, a retry and
\* a returned response change neither; and while a refresh call is in flight
\* only the step that completes it changes them.
OnlyThreeStepsWriteTokens ==
    [][LET Succeeds(k) == /\ renewals[k].outcome = "reading"
                          /\ renewals'[k].outcome = "ok"
           Fails(k) == /\ renewals[k].outcome \in {"pending", "reading"}
                       /\ renewals'[k].outcome = "failed"
           LogsOut(c) == branch[c] /= "logout" /\ branch'[c] = "logout"
           none == [token |-> null, refresh_token |-> null]
       IN  /\ \A k \in 1..Len(renewals) :
                /\ Succeeds(k) =>
                      localStorage' =
                          [token |-> renewals'[k].data.access_token,
                           refresh_token |-> renewals'[k].data.refresh_token]
                /\ Fails(k) => localStorage' = none
           /\ \A c \in Calls : LogsOut(c) => localStorage' = none
           /\ localStorage' /= localStorage =>
                \/ \E k \in 1..Len(renewals) : Succeeds(k) \/ Fails(k)
                \/ \E c \in Calls : LogsOut(c) /\ ~isRefreshing
           /\ (isRefreshing /\ localStorage' /= localStorage) =>
                \E k \in 1..Len(renewals) : Succeeds(k) \/ Fails(k)]_vars

\* C25 witness: one refresh call has succeeded, a later one has failed, and
\* a call whose 401 came after that has taken the logout without a refresh
\* call; the tokens were written by each of the three.
ThreeStepsWitness ==
    /\ \E k \in 1..Len(renewals) : renewals[k].outcome = "ok"
    /\ \E k \in 1..Len(renewals) : renewals[k].outcome = "failed"
    /\ \E c \in Calls : branch[c] = "logout"
    /\ localStorage = [token |-> null, refresh_token |-> null]

\* C26: when the page starts with both tokens stored or with neither, then
\* in every state reached through calls of the wrapper the access token is
\* stored if and only if the refresh token is: no step of the wrapper leads
\* from a state where that holds to a state where it does not.
TokensPaired ==
    [][(Truthy(localStorage.token) <=> Truthy(localStorage.refresh_token))
          => (Truthy(localStorage'.token)
                 <=> Truthy(localStorage'.refresh_token))]_vars

\* C26 witness: starting with both tokens, a refresh has replaced both and a
\* later failed refresh has removed both.
TokensPairedWitness ==
    /\ Len(renewals) = 2
    /\ renewals[1].outcome = "ok"
    /\ renewals[1].sent = RefreshToken(0)
    /\ renewals[2].outcome = "failed"
    /\ localStorage = [token |-> null, refresh_token |-> null]

\* C27: every step that terminates the session, the wrapper's logout without
\* a refresh call, the failure of a refresh call and the HTMX handler of a
\* 401, leaves neither token in localStorage.
NoTokenAfterTermination ==
    [][(\/ \E c \in Calls : branch[c] /= "logout" /\ branch'[c] = "logout"
        \/ \E k \in 1..Len(renewals) :
              /\ renewals[k].outcome /= "failed"
              /\ renewals'[k].outcome = "failed"
        \/ htmxLogouts' /= htmxLogouts)
          => localStorage' = [token |-> null, refresh_token |-> null]]_vars

\* C28: whenever the cookie access_token is set, its value is the access
\* token held in localStorage; so after a logout, which removes the token,
\* the cookie does not carry the last access token any more.
CookieMirrorsToken ==
    cookie /= null => cookie.value = localStorage.token

\* C29: after any calls of toggle and clear, readCount is the number of
\* selected items that were selected as read, so it lies between 0 and
\* count, and allRead holds exactly when something is selected and every
\* selected item was selected as read.
ReadCountExact ==
    /\ readCount = Cardinality(batchItems \cap readKeys)
    /\ 0 <= readCount
    /\ readCount <= count
    /\ allRead <=> (batchItems /= {} /\ batchItems \subseteq readKeys)

\* C30: a step that changes page leaves it between 1 and the largest of 1
\* and ceil(total / size), computed with the total held before the step; a
\* call changePage(n) with n below 1 or above that limit changes neither page
\* nor items and issues no fetch, and any other changePage(n) sets page to n
\* and issues one fetch.
PageStaysInRange ==
    [][LET limit == IF Ceil(total, PageSize) > 1
                    THEN Ceil(total, PageSize) ELSE 1
           called == lastCall' /= lastCall /\ lastCall'.op = "changePage"
           n == lastCall'.arg
       IN  /\ page' /= page => (1 <= page' /\ page' <= limit)
           /\ (called /\ (n < 1 \/ n > limit)) =>
                 UNCHANGED <<page, items, total, loading, inflight, fetched>>
           /\ (called /\ ~(n < 1 \/ n > limit)) =>
                 /\ page' = n
                 /\ fetched' = fetched + 1]_vars

\* C30 witness: with a total of 5 and pages of 2, page has been moved to the
\* last page, 3, by changePage and loadMore, and changePage(4) was then
\* turned down.
PageStaysInRangeWitness ==
    /\ total = 5
    /\ page = 3
    /\ Len(items) = 2
    /\ lastCall = [op |-> "changePage", arg |-> 4]
    /\ fetched = 3

\* C31: loading is false only while no load is in flight; and once every
\* load has been answered with a response, all of them loads that replace
\* the list, items holds the data of the current page.
OverlappingLoadsSettle ==
    /\ loading = FALSE => inflight = {}
    /\ ( /\ fetched > 0
         /\ inflight = {}
         /\ \A a \in answered : a.ok /\ ~a.load.append )
       => items = PageItems(page)

\* The calls of func made while call i was the latest call.
RunsFor(i) == {k \in 1..Len(runs) : runs[k].call = i}

\* Call i is followed by a call less than Wait later.
FollowedInBurst(i) ==
    /\ i < Len(debounceCalls)
    /\ debounceCalls[i + 1].at - debounceCalls[i].at < Wait

\* Call i is followed by a call, no sooner than Wait later.
EndsBurst(i) ==
    /\ i < Len(debounceCalls)
    /\ debounceCalls[i + 1].at - debounceCalls[i].at >= Wait

\* Every call of func made while call i was the latest came Wait or more
\* after call i, with the arguments of call i.
RunsAfterWait(i) ==
    \A k \in RunsFor(i) :
        /\ runs[k].at >= debounceCalls[i].at + Wait
        /\ runs[k].args = debounceCalls[i].args

\* C32 as stated: func runs only Wait or more after the latest call and with
\* its arguments, never for a call followed by another within Wait, and
\* exactly once for the last call of every burst that another call follows.
OncePerBurst ==
    \A i \in 1..Len(debounceCalls) :
        /\ RunsAfterWait(i)
        /\ FollowedInBurst(i) => RunsFor(i) = {}
        /\ EndsBurst(i) => Cardinality(RunsFor(i)) = 1

\* C32: func runs only Wait or more after the latest call and with its
\* arguments, and never for a call followed by another within Wait; for the
\* last call of a burst it runs exactly once, unless the next call came
\* before the timer callback had run and cleared the timer, or the timer is
\* still set, and then it has not run.
OncePerBurstUnlessCleared ==
    \A i \in 1..Len(debounceCalls) :
        /\ RunsAfterWait(i)
        /\ FollowedInBurst(i) => RunsFor(i) = {}
        /\ ~FollowedInBurst(i) =>
              Cardinality(RunsFor(i)) =
                 IF i \in cleared \/ (\E t \in timers : t.id = i) THEN 0 ELSE 1

\* C32 witness: two calls with different arguments less than Wait apart, a
\* third call Wait or more after the second; func has run for the second
\* call and for the third.
OncePerBurstWitness ==
    /\ Len(debounceCalls) = 3
    /\ debounceCalls[1].args /= debounceCalls[2].args
    /\ FollowedInBurst(1)
    /\ EndsBurst(2)
    /\ Len(runs) = 2
    /\ runs[1].call = 2
    /\ runs[2].call = 3

====
